---------------------------- MODULE Spec2Model ----------------------------
(***************************************************************************)
(* The streaming query client of the ApiProvider component                 *)
(* (src/unnamed/part_000): submitQuery reads a newline-delimited stream of *)
(* JSON events and merges them into the React state currentQuery, error    *)
(* and isLoading.                                                          *)
(*                                                                         *)
(* Text is a sequence of symbols.  The structural characters of JSON, the  *)
(* blank and the newline are one symbol each; a run of letters (a key, a   *)
(* word of a message) is one symbol, so a cut never falls inside a word.   *)
(* A JavaScript value is a record tagged by its type in field t.           *)
(***************************************************************************)
EXTENDS Naturals, Sequences, FiniteSets, TLC

QUOTE == "\""
BSLASH == "\\"
NL == "\n"
SP == " "
Whitespace == {SP}
Digits == {"1", "2", "3", "5", "7"}

(***************************************************************************)
(* JavaScript values.                                                      *)
(***************************************************************************)
Undefined == [t |-> "undefined"]
Null == [t |-> "null"]
JBool(b) == [t |-> "bool", v |-> b]
JNum(d) == [t |-> "num", v |-> d]
JStr(s) == [t |-> "str", v |-> s]
JArr(a) == [t |-> "arr", v |-> a]
JObj(p) == [t |-> "obj", v |-> p]
\* Object.prototype.constructor, what ({})["constructor"] evaluates to
ObjectFunction == [t |-> "function", v |-> "Object"]

\* own property names of Object.prototype that the model's texts can spell
ObjectPrototypeKeys == {<<"constructor">>}

\* obj[key] = val on an ordered list of own properties
RECURSIVE SetKey(_, _, _)
SetKey(p, key, val) ==
    IF p = <<>> THEN <<[k |-> key, v |-> val]>>
    ELSE IF Head(p).k = key THEN <<[k |-> key, v |-> val]>> \o Tail(p)
    ELSE <<Head(p)>> \o SetKey(Tail(p), key, val)

\* own property lookup; Undefined when absent
RECURSIVE OwnProp(_, _)
OwnProp(p, key) ==
    IF p = <<>> THEN Undefined
    ELSE IF Head(p).k = key THEN Head(p).v
    ELSE OwnProp(Tail(p), key)

HasOwn(p, key) == \E i \in 1..Len(p) : p[i].k = key

\* value.key as the code reads it from decoded data: a property of an
\* object, undefined on a string, number, boolean or array
Prop(val, key) == IF val.t = "obj" THEN OwnProp(val.v, <<key>>) ELSE Undefined

\* ToBoolean
Truthy(val) ==
    CASE val.t = "undefined" -> FALSE
      [] val.t = "null" -> FALSE
      [] val.t = "bool" -> val.v
      [] val.t = "str" -> val.v /= <<>>
      [] OTHER -> TRUE

\* a ?? b
Nullish(val) == val.t \in {"undefined", "null"}
Coalesce(a, b) == IF Nullish(a) THEN b ELSE a
\* a || b
OrElse(a, b) == IF Truthy(a) THEN a ELSE b

(***************************************************************************)
(* JSON.stringify                                                          *)
(***************************************************************************)
\* the k-th smallest member of a set of positions
Nth(S, k) == CHOOSE i \in S : Cardinality({j \in S : j <= i}) = k

\* a quote, a backslash and a newline are written as a backslash and a symbol
NeedsEscape(ch) == ch \in {QUOTE, BSLASH, NL}
EscapedAt(s, i) == i + Cardinality({j \in 1..(i - 1) : NeedsEscape(s[j])})
EscapeString(s) ==
    [j \in 1..(Len(s) + Cardinality({i \in 1..Len(s) : NeedsEscape(s[i])})) |->
        LET i == CHOOSE i \in 1..Len(s) :
                    \/ EscapedAt(s, i) = j
                    \/ NeedsEscape(s[i]) /\ EscapedAt(s, i) + 1 = j
        IN IF EscapedAt(s, i) = j
           THEN (IF NeedsEscape(s[i]) THEN BSLASH ELSE s[i])
           ELSE (IF s[i] = NL THEN "n" ELSE s[i])]

QuoteString(s) == <<QUOTE>> \o EscapeString(s) \o <<QUOTE>>

RECURSIVE JSONstringify(_), StringifyElements(_), StringifyMembers(_)
JSONstringify(val) ==
    CASE val.t = "null" -> <<"null">>
      [] val.t = "bool" -> IF val.v THEN <<"true">> ELSE <<"false">>
      [] val.t = "num" -> val.v
      [] val.t = "str" -> QuoteString(val.v)
      [] val.t = "arr" -> <<"[">> \o StringifyElements(val.v) \o <<"]">>
      [] val.t = "obj" -> <<"{">> \o StringifyMembers(val.v) \o <<"}">>
StringifyElements(a) ==
    IF a = <<>> THEN <<>>
    ELSE JSONstringify(Head(a))
         \o (IF Tail(a) = <<>> THEN <<>> ELSE <<",">> \o StringifyElements(Tail(a)))
StringifyMembers(p) ==
    IF p = <<>> THEN <<>>
    ELSE QuoteString(Head(p).k) \o <<":">> \o JSONstringify(Head(p).v)
         \o (IF Tail(p) = <<>> THEN <<>> ELSE <<",">> \o StringifyMembers(Tail(p)))

(***************************************************************************)
(* JSON.parse: a recursive-descent parser over the symbols.  A result is   *)
(* [ok |-> TRUE, val, next] or [ok |-> FALSE, at]: the position of the     *)
(* symbol the parser stopped at.                                           *)
(***************************************************************************)
ParseOk(val, next) == [ok |-> TRUE, val |-> val, next |-> next]
ParseFail(at) == [ok |-> FALSE, at |-> at]

RECURSIVE SkipWs(_, _)
SkipWs(s, i) == IF i <= Len(s) /\ s[i] \in Whitespace THEN SkipWs(s, i + 1) ELSE i

\* a string literal whose opening quote is at i - 1.  The symbol at j is
\* escaped when an odd number of backslashes stands right before it; the
\* literal ends at the first quote that is not escaped.
BackslashRun(s, i, j) ==
    CHOOSE k \in 0..(j - i) :
        /\ \A m \in 1..k : s[j - m] = BSLASH
        /\ k = j - i \/ s[j - k - 1] /= BSLASH
Escaped(s, i, j) == BackslashRun(s, i, j) % 2 = 1
ParseString(s, i) ==
    LET closers == {j \in i..Len(s) : s[j] = QUOTE /\ ~Escaped(s, i, j)}
        end == IF closers = {} THEN Len(s) + 1 ELSE Nth(closers, 1)
        bad == {j \in i..(end - 1) :
                    \/ s[j] = NL
                    \/ Escaped(s, i, j) /\ s[j] \notin {QUOTE, BSLASH, "n"}}
        kept == {j \in i..(end - 1) : Escaped(s, i, j) \/ s[j] /= BSLASH}
    IN IF bad /= {} THEN ParseFail(Nth(bad, 1))
       ELSE IF end > Len(s) THEN ParseFail(end)
       ELSE ParseOk(JStr([k \in 1..Cardinality(kept) |->
                            LET j == Nth(kept, k) IN
                            IF Escaped(s, i, j) /\ s[j] = "n" THEN NL ELSE s[j]]),
                    end + 1)

RECURSIVE ParseNumber(_, _, _)
ParseNumber(s, i, acc) ==
    IF i <= Len(s) /\ s[i] \in Digits
    THEN ParseNumber(s, i + 1, Append(acc, s[i]))
    ELSE ParseOk(JNum(acc), i)

RECURSIVE ParseValue(_, _), ParseElements(_, _, _), ParseMembers(_, _, _)
ParseValue(s, i0) ==
    LET i == SkipWs(s, i0) IN
    IF i > Len(s) THEN ParseFail(i)
    ELSE CASE s[i] = QUOTE -> ParseString(s, i + 1)
           [] s[i] = "[" ->
                LET j == SkipWs(s, i + 1) IN
                IF j <= Len(s) /\ s[j] = "]" THEN ParseOk(JArr(<<>>), j + 1)
                ELSE ParseElements(s, i + 1, <<>>)
           [] s[i] = "{" ->
                LET j == SkipWs(s, i + 1) IN
                IF j <= Len(s) /\ s[j] = "}" THEN ParseOk(JObj(<<>>), j + 1)
                ELSE ParseMembers(s, i + 1, <<>>)
           [] s[i] \in Digits -> ParseNumber(s, i, <<>>)
           [] s[i] = "true" -> ParseOk(JBool(TRUE), i + 1)
           [] s[i] = "false" -> ParseOk(JBool(FALSE), i + 1)
           [] s[i] = "null" -> ParseOk(Null, i + 1)
           [] OTHER -> ParseFail(i)
ParseElements(s, i, acc) ==
    LET r == ParseValue(s, i) IN
    IF ~r.ok THEN r
    ELSE LET j == SkipWs(s, r.next) IN
         IF j > Len(s) THEN ParseFail(j)
         ELSE IF s[j] = "," THEN ParseElements(s, j + 1, Append(acc, r.val))
         ELSE IF s[j] = "]" THEN ParseOk(JArr(Append(acc, r.val)), j + 1)
         ELSE ParseFail(j)
ParseMembers(s, i, acc) ==
    LET j == SkipWs(s, i) IN
    IF j > Len(s) \/ s[j] /= QUOTE THEN ParseFail(j)
    ELSE LET key == ParseString(s, j + 1) IN
         IF ~key.ok THEN key
         ELSE LET c == SkipWs(s, key.next) IN
              IF c > Len(s) \/ s[c] /= ":" THEN ParseFail(c)
              ELSE LET r == ParseValue(s, c + 1) IN
                   IF ~r.ok THEN r
                   ELSE LET e == SkipWs(s, r.next) IN
                        IF e > Len(s) THEN ParseFail(e)
                        ELSE IF s[e] = ","
                             THEN ParseMembers(s, e + 1, SetKey(acc, key.val.v, r.val))
                        ELSE IF s[e] = "}"
                             THEN ParseOk(JObj(SetKey(acc, key.val.v, r.val)), e + 1)
                        ELSE ParseFail(e)

\* the decimal digits of a position, as symbols
DigitSymbol(n) == <<"0", "1", "2", "3", "4", "5", "6", "7", "8", "9">>[n + 1]
RECURSIVE Decimal(_)
Decimal(n) == IF n < 10 THEN <<DigitSymbol(n)>>
              ELSE Decimal(n \div 10) \o <<DigitSymbol(n % 10)>>

\* the message of the SyntaxError JSON.parse throws on text s at symbol at
SyntaxErrorMessage(s, at) ==
    IF at > Len(s) THEN <<"Unexpected end of JSON input">>
    ELSE <<"Unexpected token ", s[at], " in JSON at position ">> \o Decimal(at - 1)

\* a completion: a returned value, or a thrown error with its message
Return(val) == [ok |-> TRUE, val |-> val]
Throw(msg) == [ok |-> FALSE, msg |-> msg]

\* the value must be all of the text but for white space
ParseEnd(s, r) ==
    IF ~r.ok THEN Throw(SyntaxErrorMessage(s, r.at))
    ELSE IF SkipWs(s, r.next) <= Len(s)
         THEN Throw(SyntaxErrorMessage(s, SkipWs(s, r.next)))
         ELSE Return(r.val)

JSONparse(s) == ParseEnd(s, ParseValue(s, 1))

\* String(value): the text JSON.parse reads when it is handed a value
ToText(val) == IF val.t = "str" THEN val.v ELSE JSONstringify(val)

(***************************************************************************)
(* String helpers of the read loop.                                        *)
(***************************************************************************)
\* s.split('\n'): the segments between newlines, at least one
SplitNewline(s) ==
    LET newlines == {i \in 1..Len(s) : s[i] = NL}
        n == Cardinality(newlines)
    IN [k \in 1..(n + 1) |->
            SubSeq(s, IF k = 1 THEN 1 ELSE Nth(newlines, k - 1) + 1,
                      IF k = n + 1 THEN Len(s) ELSE Nth(newlines, k) - 1)]

\* !s.trim(): nothing but white space
TrimIsEmpty(s) == \A i \in 1..Len(s) : s[i] \in Whitespace \cup {NL}

StartsWithQuote(s) == Len(s) > 0 /\ s[1] = QUOTE
EndsWithQuote(s) == Len(s) > 0 /\ s[Len(s)] = QUOTE

\* a pop that forgets the incomplete line
PopLastDropped(lines) == <<>>
\* buffer = lines.pop() || ''
PopLast(lines) == lines[Len(lines)]
\* lines after the pop
CompleteLines(lines) == SubSeq(lines, 1, Len(lines) - 1)

RECURSIVE Concat(_)
Concat(ss) == IF ss = <<>> THEN <<>> ELSE Head(ss) \o Concat(Tail(ss))

(***************************************************************************)
(* The line decoder: JSON.parse, and on failure the unwrapping of a        *)
(* quote-wrapped line.                                                     *)
(***************************************************************************)
\* the two parses of the catch block: the line once more, then its value
ParseTwice(unescaped) ==
    IF ~unescaped.ok THEN unescaped ELSE JSONparse(ToText(unescaped.val))

\* first is the completion of the first JSON.parse(line)
DecodeFallback(line, first) ==
    IF first.ok THEN first
    ELSE IF StartsWithQuote(line) /\ EndsWithQuote(line)
         THEN ParseTwice(JSONparse(line))
         ELSE first

DecodeLine(line) == DecodeFallback(line, JSONparse(line))

(***************************************************************************)
(* The React state the handlers update: st = [cq, error, isLoading].       *)
(***************************************************************************)
QueryFields == {"question", "documents", "answer", "structured_answer",
                "streamError", "requestedK", "effectiveK"}

\* the initial query result of submitQuery
InitialQuery(question) ==
    [question |-> JStr(question), documents |-> JArr(<<>>), answer |-> Null,
     structured_answer |-> Null, streamError |-> Null, requestedK |-> Null,
     effectiveK |-> Null]

\* {...prev}: the properties of prev, none when prev is null
Spread(prev) == IF prev = Null THEN [f \in QueryFields |-> Undefined] ELSE prev

\* setCurrentQuery(prev => ({...prev, streamError: msg}))
WithStreamError(prev, msg) == [Spread(prev) EXCEPT !.streamError = msg]

TypeErrorMessage(key) == <<"Cannot read properties of null (reading '", key, "')">>

MidPrefix == "stream_parse_error: "
FinalPrefix == "stream_parse_error(final): "
UnknownStreamingError == JStr(<<"Unknown streaming error">>)

\* a catch that throws the documents away
OnParseErrorDroppingDocuments(st, msg) ==
    [cq |-> [WithStreamError(st.cq, JStr(<<MidPrefix>> \o msg)) EXCEPT
                !.documents = JArr(<<>>)],
     error |-> JStr(<<MidPrefix>> \o msg), isLoading |-> st.isLoading]
\* the catch of the per-line try: error and streamError are set, loading is
\* left alone
OnParseError(st, msg) ==
    LET parseMsg == JStr(<<MidPrefix>> \o msg) IN
    [cq |-> WithStreamError(st.cq, parseMsg), error |-> parseMsg,
     isLoading |-> st.isLoading]

\* the data.error branch
OnErrorField(st, data) ==
    [cq |-> WithStreamError(st.cq, Prop(data, "error")),
     error |-> Prop(data, "error"), isLoading |-> FALSE]

\* a merge that forgets the previous value
MergeKWithoutPrevious(carried, prevK) == Coalesce(carried, Null)
\* data.requested_k ?? prev?.requestedK ?? null
MergeK(carried, prevK) == Coalesce(carried, Coalesce(prevK, Null))

\* case 'documents'
OnDocuments(st, data) ==
    [st EXCEPT !.cq = [Spread(st.cq) EXCEPT
        !.documents = Prop(data, "data"),
        !.requestedK = MergeK(Prop(data, "requested_k"), Spread(st.cq).requestedK),
        !.effectiveK = MergeK(Prop(data, "effective_k"), Spread(st.cq).effectiveK)]]

\* the property key a content is used as
PropertyKey(val) == IF val.t = "undefined" THEN <<"undefined">> ELSE ToText(val)

\* highlightMap after data.data.forEach(...)
RECURSIVE BuildHighlightMap(_, _)
BuildHighlightMap(entries, map) ==
    IF entries = <<>> THEN map
    ELSE BuildHighlightMap(Tail(entries),
            SetKey(map, PropertyKey(Prop(Head(entries), "content")),
                   OrElse(Prop(Head(entries), "highlights"), JArr(<<>>))))

\* highlightMap[key] on the object literal {}: an own property, else what
\* Object.prototype has under that name
MapLookup(map, key) ==
    IF HasOwn(map, key) THEN OwnProp(map, key)
    ELSE IF key \in ObjectPrototypeKeys THEN ObjectFunction
    ELSE Undefined

\* {...doc, highlights: highlightMap[doc.content] || []}
WithHighlights(doc, map) ==
    JObj(SetKey(doc.v, <<"highlights">>,
                OrElse(MapLookup(map, PropertyKey(Prop(doc, "content"))), JArr(<<>>))))

\* case 'highlights'
OnHighlights(st, data) ==
    LET map == BuildHighlightMap(Prop(data, "data").v, <<>>)
        docs == st.cq.documents.v
        updatedDocs == [i \in 1..Len(docs) |-> WithHighlights(docs[i], map)]
    IN [st EXCEPT !.cq = [Spread(st.cq) EXCEPT
        !.documents = JArr(updatedDocs),
        !.requestedK = MergeK(Prop(data, "requested_k"), Spread(st.cq).requestedK),
        !.effectiveK = MergeK(Prop(data, "effective_k"), Spread(st.cq).effectiveK)]]

\* an answer branch that assigns the answer alone
OnAnswerAlone(st, data) ==
    [cq |-> [Spread(st.cq) EXCEPT !.answer = Prop(Prop(data, "data"), "answer")],
     error |-> st.error,
     isLoading |-> IF Truthy(Prop(data, "done")) THEN FALSE ELSE st.isLoading]
\* case 'answer'
OnAnswer(st, data) ==
    [cq |-> [Spread(st.cq) EXCEPT
                !.answer = Prop(Prop(data, "data"), "answer"),
                !.structured_answer = Prop(Prop(data, "data"), "structured_answer")],
     error |-> st.error,
     isLoading |-> IF Truthy(Prop(data, "done")) THEN FALSE ELSE st.isLoading]

\* a loop body that consults the type before the error field
HandleDecodedTypeFirst(st, d) ==
    IF ~d.ok THEN OnParseError(st, d.msg)
    ELSE IF d.val = Null THEN OnParseError(st, TypeErrorMessage("error"))
    ELSE CASE Prop(d.val, "type") = JStr(<<"documents">>) -> OnDocuments(st, d.val)
           [] Prop(d.val, "type") = JStr(<<"highlights">>) -> OnHighlights(st, d.val)
           [] Prop(d.val, "type") = JStr(<<"answer">>) -> OnAnswer(st, d.val)
           [] OTHER -> IF Truthy(Prop(d.val, "error")) THEN OnErrorField(st, d.val) ELSE st
\* the body of the for loop for one non-blank line, d the completion of
\* its decoding
HandleDecoded(st, d) ==
    IF ~d.ok THEN OnParseError(st, d.msg)
    ELSE IF d.val = Null THEN OnParseError(st, TypeErrorMessage("error"))
    ELSE IF Truthy(Prop(d.val, "error")) THEN OnErrorField(st, d.val)
    ELSE CASE Prop(d.val, "type") = JStr(<<"documents">>) -> OnDocuments(st, d.val)
           [] Prop(d.val, "type") = JStr(<<"highlights">>) -> OnHighlights(st, d.val)
           [] Prop(d.val, "type") = JStr(<<"answer">>) -> OnAnswer(st, d.val)
           [] OTHER -> st

HandleLine(st, line) == HandleDecoded(st, DecodeLine(line))

\* a catch of the final buffer's try that tags like the loop's
OnFinalParseErrorMidTag(st, msg) ==
    [cq |-> WithStreamError(st.cq, JStr(<<MidPrefix>> \o msg)),
     error |-> JStr(<<MidPrefix>> \o msg), isLoading |-> st.isLoading]
\* the catch of the final buffer's try
OnFinalParseError(st, msg) ==
    LET finalParseMsg == JStr(<<FinalPrefix>> \o msg) IN
    [cq |-> WithStreamError(st.cq, finalParseMsg), error |-> finalParseMsg,
     isLoading |-> st.isLoading]

\* the first if of the final buffer: an error event
OnFinalError(st, finalMsg) ==
    [cq |-> WithStreamError(st.cq, finalMsg), error |-> finalMsg, isLoading |-> FALSE]

\* the second if of the final buffer: a completed answer
OnFinalAnswer(st, data) ==
    IF Prop(data, "type") = JStr(<<"answer">>) /\ Truthy(Prop(data, "done"))
    THEN [st EXCEPT !.isLoading = FALSE]
    ELSE st

\* the final buffer, when it is not blank, d the completion of its decoding
HandleFinalDecoded(st, d) ==
    IF ~d.ok THEN OnFinalParseError(st, d.msg)
    ELSE IF d.val = Null THEN OnFinalParseError(st, TypeErrorMessage("type"))
    ELSE OnFinalAnswer(
            IF Prop(d.val, "type") = JStr(<<"error">>) \/ Truthy(Prop(d.val, "error"))
            THEN OnFinalError(st, OrElse(Prop(d.val, "error"), UnknownStreamingError))
            ELSE st,
            d.val)

HandleFinal(st, buffer) == HandleFinalDecoded(st, DecodeLine(buffer))

(***************************************************************************)
(* The inputs: the events a server sends, the lines that carry them, the   *)
(* replies of fetch and of the status request.                             *)
(***************************************************************************)
\* newline-terminated lines of one response
MaxLines == 3
\* packets written and not yet read
MaxWire == 2
\* symbols of a response of free text
MaxText == 5

Member(key, val) == [k |-> <<key>>, v |-> val]
Word(w) == JStr(<<w>>)
Doc(content) == JObj(<<Member("content", Word(content))>>)
Entry(content, hl) == JObj(<<Member("content", Word(content)), Member("highlights", JArr(hl))>>)

DocsAB == JObj(<<Member("type", Word("documents")),
                 Member("data", JArr(<<Doc("A"), Doc("B")>>)),
                 Member("requested_k", JNum(<<"5">>)),
                 Member("effective_k", JNum(<<"3">>))>>)
DocsACA == JObj(<<Member("type", Word("documents")),
                  Member("data", JArr(<<Doc("A"), Doc("constructor"), Doc("A")>>))>>)
HighlightsA == JObj(<<Member("type", Word("highlights")),
                      Member("data", JArr(<<Entry("A", <<Word("x")>>)>>))>>)
HighlightsABA == JObj(<<Member("type", Word("highlights")),
                        Member("data", JArr(<<Entry("A", <<Word("x")>>), Doc("B"),
                                              Entry("A", <<Word("y"), Word("x")>>)>>)),
                        Member("requested_k", JNum(<<"7">>))>>)
AnswerDone == JObj(<<Member("type", Word("answer")),
                     Member("data", JObj(<<Member("answer", Word("done")),
                                           Member("structured_answer",
                                                  JObj(<<Member("v", JNum(<<"1">>))>>))>>)),
                     Member("done", JBool(TRUE))>>)
AnswerPart == JObj(<<Member("type", Word("answer")),
                     Member("data", JObj(<<Member("answer", Word("part")),
                                           Member("structured_answer", Null)>>))>>)
ErrorTimeout == JObj(<<Member("error", Word("timeout"))>>)
StatusEvent == JObj(<<Member("type", Word("status"))>>)

\* events that carry an error field together with a type
ErrorDocs == JObj(<<Member("type", Word("documents")),
                    Member("data", JArr(<<Doc("B")>>)),
                    Member("requested_k", JNum(<<"7">>)),
                    Member("error", Word("boom"))>>)
ErrorHighlights == JObj(<<Member("type", Word("highlights")),
                          Member("data", JArr(<<Entry("A", <<Word("y")>>)>>)),
                          Member("error", Word("boom"))>>)
ErrorAnswer == JObj(<<Member("type", Word("answer")),
                      Member("data", JObj(<<Member("answer", Word("late")),
                                            Member("structured_answer", Null)>>)),
                      Member("error", Word("boom"))>>)
\* an answer event that carries both K values
AnswerK == JObj(<<Member("type", Word("answer")),
                  Member("data", JObj(<<Member("answer", Word("part")),
                                        Member("structured_answer", Null)>>)),
                  Member("requested_k", JNum(<<"7">>)),
                  Member("effective_k", JNum(<<"2">>))>>)
\* an event of type error without an error field
TypeError == JObj(<<Member("type", Word("error"))>>)

\* the event shapes of the wire contract
RecognizedEvents == {DocsAB, DocsACA, HighlightsA, HighlightsABA, AnswerDone, AnswerPart,
                     ErrorTimeout}

\* a payload serialized, and the serialization serialized once more as a
\* string literal
DirectLine(ev) == JSONstringify(ev)
DoubleEncodedLine(ev) == JSONstringify(JStr(JSONstringify(ev)))

\* a line cut short, which no decoder accepts
TruncatedLine == <<"{", QUOTE, "type", QUOTE, ":">>
NullLine == <<"null">>
GarbledLine == <<"{", "x", "}">>

Lines == {DirectLine(ev) : ev \in RecognizedEvents}
         \cup {DirectLine(StatusEvent), DoubleEncodedLine(ErrorTimeout),
               TruncatedLine, GarbledLine, NullLine}

\* the lines that travel in two packets
CutLines == {DirectLine(DocsAB), DirectLine(ErrorTimeout)}

\* the lines of a server whose events carry more than their type asks for
VariantLines == {DirectLine(ev) : ev \in {DocsAB, HighlightsABA, AnswerK, ErrorDocs,
                                           ErrorHighlights, ErrorAnswer, TypeError,
                                           StatusEvent}}
\* the lines of a short stream
LiveLines == {DirectLine(DocsAB), DirectLine(AnswerDone), DirectLine(ErrorTimeout),
              GarbledLine}

\* the lines of the streams of two overlapping queries; none is a highlights
\* event, whose updater reads prev.documents of a result that may be reset
SessionLines == {DirectLine(DocsAB), DirectLine(AnswerDone)}

FrameAlphabet == {NL, SP, "1", "x"}

Questions == {<<"what is x">>}
\* the question each of two overlapping calls asks
QuestionOf(c) == IF c = 1 THEN <<"what is x">> ELSE <<"what is y">>
DefaultNumDocs == 20

Responses == {[ok |-> TRUE, status |-> "200", statusText |-> "OK"],
              [ok |-> FALSE, status |-> "503", statusText |-> "Service Unavailable"],
              [ok |-> FALSE, status |-> "404", statusText |-> "Not Found"]}
NetworkErrors == {<<"Failed to fetch">>}
StatusReplies == {[ok |-> TRUE, loaded |-> TRUE, msg |-> <<>>],
                  [ok |-> TRUE, loaded |-> FALSE, msg |-> <<>>],
                  [ok |-> FALSE, loaded |-> FALSE, msg |-> <<"Network Error">>]}
\* the refusal without its advice to wait
ResourcesNotLoadedShort == JStr(<<"Resources not loaded">>)
ResourcesNotLoaded ==
    JStr(<<"Resources not loaded. Please wait for the system to initialize.">>)

(***************************************************************************)
(* The state.                                                              *)
(***************************************************************************)
\* two calls of submitQuery can be in flight; FirstCall is the one a client
\* that waits for each answer makes
Calls == {1, 2}
FirstCall == {1}
\* the completion value of a call that has not returned
NotReturned == [t |-> "pending"]

VARIABLES
    isLoading,          \* useState(false)
    error,              \* useState(null)
    isResourcesLoaded,  \* useState(false)
    currentQuery,       \* useState(null)
    statusPc,           \* refreshStatus of the mount effect: mount, pending, idle
    pc,                 \* per call of submitQuery: idle, fetching, reading, and
                        \* done (it returned) or failed (it threw and caught)
    response,           \* per call: the response fetch resolved with, Null before
    request,            \* per call: the body of its fetch, Null before
    buffer,             \* per call: the local variable buffer
    todo,               \* per call: the lines the for loop has still to visit
    wire,               \* per call: the packets written and not yet read
    open,               \* per call: the server has not ended the body
    tail,               \* per call: the rest of a line the server sent in part
    sent,               \* per call: all text written so far (history)
    processed,          \* per call: the non-blank lines handled so far (history)
    returned,           \* per call: the value its promise resolved with
    closure,            \* the currentQuery the submitQuery callback closed over
    refreshed           \* the forced-update timer has fired in this query (history)

vars == <<isLoading, error, isResourcesLoaded, currentQuery, statusPc, pc, request,
          response, buffer, todo, wire, open, tail, sent, processed, returned,
          closure, refreshed>>
callbackVars == <<returned, closure, refreshed>>
reactVars == <<isLoading, error, isResourcesLoaded, currentQuery>>
streamVars == <<wire, open, tail, sent>>

State == [cq |-> currentQuery, error |-> error, isLoading |-> isLoading]

\* the state setters, applied in the order of the calls
SetState(st) ==
    /\ currentQuery' = st.cq
    /\ error' = st.error
    /\ isLoading' = st.isLoading

\* a finally block that leaves the loading flag alone
FinallyKeepsLoading(st) == st
\* finally { setIsLoading(false) }
Finally(st) == [st EXCEPT !.isLoading = FALSE]

\* a for loop over lines is running: JavaScript runs it to completion
Busy == \E c \in Calls : todo[c] /= <<>>

Init ==
    /\ isLoading = FALSE
    /\ error = Null
    /\ isResourcesLoaded = FALSE
    /\ currentQuery = Null
    /\ statusPc = "mount"
    /\ pc = [c \in Calls |-> "idle"]
    /\ request = [c \in Calls |-> Null]
    /\ response = [c \in Calls |-> Null]
    /\ buffer = [c \in Calls |-> <<>>]
    /\ todo = [c \in Calls |-> <<>>]
    /\ wire = [c \in Calls |-> <<>>]
    /\ open = [c \in Calls |-> FALSE]
    /\ tail = [c \in Calls |-> <<>>]
    /\ sent = [c \in Calls |-> <<>>]
    /\ processed = [c \in Calls |-> <<>>]
    /\ returned = [c \in Calls |-> NotReturned]
    /\ closure = Null
    /\ refreshed = FALSE

(***************************************************************************)
(* refreshStatus, called by the mount effect.                              *)
(***************************************************************************)
RefreshStatusStart ==
    /\ statusPc = "mount"
    /\ ~Busy
    /\ isLoading' = TRUE
    /\ error' = Null
    /\ statusPc' = "pending"
    /\ UNCHANGED <<isResourcesLoaded, currentQuery, pc, request, response, buffer, todo,
                   streamVars, processed, callbackVars>>

RefreshStatusDone(r) ==
    /\ statusPc = "pending"
    /\ ~Busy
    /\ isResourcesLoaded' = IF r.ok THEN r.loaded ELSE isResourcesLoaded
    /\ error' = IF r.ok THEN error ELSE JStr(r.msg)
    /\ isLoading' = FALSE
    /\ statusPc' = "idle"
    \* useCallback(..., [isResourcesLoaded, numDocs]) makes a new callback
    /\ closure' = IF r.ok /\ r.loaded /= isResourcesLoaded THEN currentQuery ELSE closure
    /\ UNCHANGED <<currentQuery, pc, request, response, buffer, todo, streamVars, processed,
                   returned, refreshed>>

(***************************************************************************)
(* submitQuery.                                                            *)
(***************************************************************************)
SubmitQuery(c, question) ==
    /\ pc[c] \in {"idle", "done", "failed"}
    /\ ~Busy
    /\ IF ~isResourcesLoaded
       THEN /\ error' = ResourcesNotLoaded
            /\ returned' = [returned EXCEPT ![c] = Null]
            /\ UNCHANGED <<isLoading, currentQuery, pc, request, response, buffer,
                           streamVars, processed, refreshed>>
       ELSE /\ isLoading' = TRUE
            /\ error' = Null
            /\ currentQuery' = InitialQuery(question)
            /\ pc' = [pc EXCEPT ![c] = "fetching"]
            /\ request' = [request EXCEPT
                    ![c] = [question |-> question, num_docs |-> DefaultNumDocs]]
            /\ response' = [response EXCEPT ![c] = Null]
            /\ buffer' = [buffer EXCEPT ![c] = <<>>]
            /\ wire' = [wire EXCEPT ![c] = <<>>]
            /\ open' = [open EXCEPT ![c] = FALSE]
            /\ tail' = [tail EXCEPT ![c] = <<>>]
            /\ sent' = [sent EXCEPT ![c] = <<>>]
            /\ processed' = [processed EXCEPT ![c] = <<>>]
            /\ returned' = [returned EXCEPT ![c] = NotReturned]
            /\ refreshed' = FALSE
    /\ UNCHANGED <<isResourcesLoaded, statusPc, todo, closure>>

\* a message that leaves the status text out
StatusMessageWithoutText(r) == JStr(<<"Server responded with ", r.status>>)
\* `Server responded with ${response.status}: ${response.statusText}`
StatusMessage(r) == JStr(<<"Server responded with ", r.status, ": ", r.statusText>>)

\* fetch resolves: the reader is taken, or the status is thrown and caught
FetchResolve(c, r) ==
    /\ pc[c] = "fetching"
    /\ ~Busy
    /\ response' = [response EXCEPT ![c] = r]
    /\ IF r.ok
       THEN /\ pc' = [pc EXCEPT ![c] = "reading"]
            /\ buffer' = [buffer EXCEPT ![c] = <<>>]
            /\ open' = [open EXCEPT ![c] = TRUE]
            /\ UNCHANGED <<isLoading, error, currentQuery, returned>>
       ELSE /\ currentQuery' = WithStreamError(currentQuery, StatusMessage(r))
            /\ error' = StatusMessage(r)
            /\ isLoading' = FALSE
            /\ pc' = [pc EXCEPT ![c] = "failed"]
            /\ returned' = [returned EXCEPT ![c] = Null]
            /\ UNCHANGED <<buffer, open>>
    /\ UNCHANGED <<isResourcesLoaded, statusPc, request, todo, wire, tail, sent,
                   processed, closure, refreshed>>

\* fetch rejects: catch and finally
FetchReject(c, msg) ==
    /\ pc[c] = "fetching"
    /\ ~Busy
    /\ error' = JStr(msg)
    /\ isLoading' = FALSE
    /\ pc' = [pc EXCEPT ![c] = "failed"]
    /\ returned' = [returned EXCEPT ![c] = Null]
    /\ UNCHANGED <<isResourcesLoaded, currentQuery, statusPc, request, response, buffer, todo,
                   streamVars, processed, closure, refreshed>>

\* reader.read() resolves with a chunk: everything written and not yet read
Read(c) ==
    /\ pc[c] = "reading"
    /\ ~Busy
    /\ wire[c] /= <<>>
    /\ buffer' = [buffer EXCEPT ![c] = PopLast(SplitNewline(@ \o Concat(wire[c])))]
    /\ todo' = [todo EXCEPT ![c] = CompleteLines(SplitNewline(buffer[c] \o Concat(wire[c])))]
    /\ wire' = [wire EXCEPT ![c] = <<>>]
    /\ UNCHANGED <<reactVars, callbackVars, statusPc, pc, request, response, open, tail, sent, processed>>

\* one turn of the for loop
ProcessLine(c) ==
    /\ todo[c] /= <<>>
    /\ SetState(IF TrimIsEmpty(Head(todo[c])) THEN State
                ELSE HandleLine(State, Head(todo[c])))
    /\ processed' = IF TrimIsEmpty(Head(todo[c])) THEN processed
                    ELSE [processed EXCEPT
                            ![c] = Append(@, [line |-> Head(todo[c]), final |-> FALSE])]
    /\ todo' = [todo EXCEPT ![c] = Tail(@)]
    /\ UNCHANGED <<isResourcesLoaded, statusPc, pc, request, response, buffer, streamVars,
                   callbackVars>>

\* reader.read() resolves with done: the final buffer, return and finally
EndOfStream(c) ==
    /\ pc[c] = "reading"
    /\ ~Busy
    /\ wire[c] = <<>>
    /\ ~open[c]
    /\ SetState(Finally(IF TrimIsEmpty(buffer[c]) THEN State
                        ELSE HandleFinal(State, buffer[c])))
    /\ processed' = IF TrimIsEmpty(buffer[c]) THEN processed
                    ELSE [processed EXCEPT
                            ![c] = Append(@, [line |-> buffer[c], final |-> TRUE])]
    /\ pc' = [pc EXCEPT ![c] = "done"]
    \* return currentQuery: the one of the render that made the callback
    /\ returned' = [returned EXCEPT ![c] = closure]
    /\ UNCHANGED <<isResourcesLoaded, statusPc, request, response, buffer, todo, streamVars,
                   closure, refreshed>>

\* reader.read() finds nothing to take and rejects, the connection being
\* lost: catch and finally
ReadReject(c, msg) ==
    /\ pc[c] = "reading"
    /\ ~Busy
    /\ wire[c] = <<>>
    /\ error' = JStr(msg)
    /\ isLoading' = FALSE
    /\ pc' = [pc EXCEPT ![c] = "failed"]
    /\ open' = [open EXCEPT ![c] = FALSE]
    /\ tail' = [tail EXCEPT ![c] = <<>>]
    /\ returned' = [returned EXCEPT ![c] = Null]
    /\ UNCHANGED <<isResourcesLoaded, currentQuery, statusPc, request, response, buffer, todo,
                   wire, sent, processed, closure, refreshed>>

(***************************************************************************)
(* resetQuery, and the effect that forces an update while documents load.  *)
(***************************************************************************)
ResetQuery ==
    /\ ~Busy
    /\ currentQuery' = Null
    /\ UNCHANGED <<isLoading, error, isResourcesLoaded, statusPc, pc, request, response,
                   buffer, todo, streamVars, processed, callbackVars>>

\* the condition under which the effect sets its timer; its cleanup clears
\* the timer at every change of currentQuery or isLoading, so a timer is
\* pending exactly while the condition holds
TimerArmed ==
    /\ currentQuery /= Null
    /\ currentQuery.documents.t = "arr"
    /\ Len(currentQuery.documents.v) > 0
    /\ isLoading

\* the timer fires: setCurrentQuery(prev => ({...prev}))
TimerFire ==
    /\ ~Busy
    /\ TimerArmed
    /\ currentQuery' = Spread(currentQuery)
    /\ refreshed' = TRUE
    /\ UNCHANGED <<isLoading, error, isResourcesLoaded, statusPc, pc, request, response,
                   buffer, todo, streamVars, processed, returned, closure>>

(***************************************************************************)
(* The transport: the server writes packets, a read takes what is there.   *)
(***************************************************************************)
CountNewlines(s) == Cardinality({i \in 1..Len(s) : s[i] = NL})
LinesSent(c) == CountNewlines(sent[c] \o tail[c])

CanWrite(c) == pc[c] = "reading" /\ open[c] /\ ~Busy

Write(c, packet) ==
    /\ wire' = [wire EXCEPT ![c] = Append(@, packet)]
    /\ sent' = [sent EXCEPT ![c] = @ \o packet]

\* a line and its newline in one packet
ServerSendLine(c, line) ==
    /\ CanWrite(c)
    /\ tail[c] = <<>>
    /\ LinesSent(c) < MaxLines
    /\ Len(wire[c]) < MaxWire
    /\ Write(c, line \o <<NL>>)
    /\ UNCHANGED <<reactVars, callbackVars, statusPc, pc, request, response, buffer, todo, open, tail, processed>>

\* the first half of a line; the rest follows in a packet of its own
ServerSendHalf(c, line) ==
    /\ CanWrite(c)
    /\ tail[c] = <<>>
    /\ LinesSent(c) < MaxLines
    /\ Len(wire[c]) < MaxWire
    /\ Len(line) >= 2
    /\ Write(c, SubSeq(line, 1, Len(line) \div 2))
    /\ tail' = [tail EXCEPT ![c] = SubSeq(line, Len(line) \div 2 + 1, Len(line)) \o <<NL>>]
    /\ UNCHANGED <<reactVars, callbackVars, statusPc, pc, request, response, buffer, todo, open, processed>>

ServerSendTail(c) ==
    /\ CanWrite(c)
    /\ tail[c] /= <<>>
    /\ Len(wire[c]) < MaxWire
    /\ Write(c, tail[c])
    /\ tail' = [tail EXCEPT ![c] = <<>>]
    /\ UNCHANGED <<reactVars, callbackVars, statusPc, pc, request, response, buffer, todo, open, processed>>

\* a last line without its newline, and the end of the body
ServerSendLast(c, line) ==
    /\ CanWrite(c)
    /\ tail[c] = <<>>
    /\ LinesSent(c) < MaxLines
    /\ Write(c, line)
    /\ open' = [open EXCEPT ![c] = FALSE]
    /\ UNCHANGED <<reactVars, callbackVars, statusPc, pc, request, response, buffer, todo, tail, processed>>

\* the end of the body
ServerClose(c) ==
    /\ CanWrite(c)
    /\ tail[c] = <<>>
    /\ open' = [open EXCEPT ![c] = FALSE]
    /\ UNCHANGED <<reactVars, callbackVars, statusPc, pc, request, response, buffer, todo, wire, tail, sent,
                   processed>>

\* one symbol in a packet of its own
ServerSendSymbol(c, ch) ==
    /\ CanWrite(c)
    /\ Len(sent[c]) < MaxText
    /\ Write(c, <<ch>>)
    /\ UNCHANGED <<reactVars, callbackVars, statusPc, pc, request, response, buffer, todo, open, tail, processed>>

Client ==
    \/ RefreshStatusStart
    \/ \E r \in StatusReplies : RefreshStatusDone(r)
    \/ \E c \in FirstCall, q \in Questions : SubmitQuery(c, q)
    \/ \E c \in FirstCall, r \in Responses : FetchResolve(c, r)
    \/ \E c \in FirstCall, m \in NetworkErrors : FetchReject(c, m)
    \/ \E c \in FirstCall : Read(c)
    \/ \E c \in FirstCall : ProcessLine(c)
    \/ \E c \in FirstCall : EndOfStream(c)
    \/ \E c \in FirstCall, m \in NetworkErrors : ReadReject(c, m)

\* a server that writes events line by line
Next ==
    \/ Client
    \/ \E c \in FirstCall, l \in Lines : ServerSendLine(c, l)
    \/ \E c \in FirstCall, l \in CutLines : ServerSendHalf(c, l)
    \/ \E c \in FirstCall : ServerSendTail(c)
    \/ \E c \in FirstCall, l \in Lines : ServerSendLast(c, l)
    \/ \E c \in FirstCall : ServerClose(c)

Spec == Init /\ [][Next]_vars

\* a server that writes arbitrary text symbol by symbol
NextFrame ==
    \/ Client
    \/ \E c \in FirstCall, ch \in FrameAlphabet : ServerSendSymbol(c, ch)
    \/ \E c \in FirstCall : ServerClose(c)

SpecFrame == Init /\ [][NextFrame]_vars

\* a session in which a query is submitted or reset while another is read
NextSession ==
    \/ RefreshStatusStart
    \/ \E r \in StatusReplies : RefreshStatusDone(r)
    \/ \E c \in Calls : SubmitQuery(c, QuestionOf(c))
    \/ \E c \in Calls, r \in Responses : FetchResolve(c, r)
    \/ \E c \in Calls : Read(c)
    \/ \E c \in Calls : ProcessLine(c)
    \/ \E c \in Calls : EndOfStream(c)
    \/ ResetQuery
    \/ TimerFire
    \/ \E c \in Calls, l \in SessionLines : ServerSendLine(c, l)
    \/ \E c \in Calls : ServerClose(c)

SpecSession == Init /\ [][NextSession]_vars

\* a server whose events carry an error field or K values with any type
NextVariants ==
    \/ Client
    \/ \E c \in FirstCall, l \in VariantLines : ServerSendLine(c, l)
    \/ \E c \in FirstCall, l \in VariantLines : ServerSendLast(c, l)
    \/ \E c \in FirstCall : ServerClose(c)

SpecVariants == Init /\ [][NextVariants]_vars

\* a transport that answers every fetch and every read, and a server that
\* ends every body
NextLive ==
    \/ Client
    \/ \E c \in FirstCall, l \in LiveLines : ServerSendLine(c, l)
    \/ \E c \in FirstCall, l \in LiveLines : ServerSendLast(c, l)
    \/ \E c \in FirstCall : ServerClose(c)

\* the fetch settles, and a read of a body that holds bytes resolves
Transport(c) ==
    \/ \E r \in Responses : FetchResolve(c, r)
    \/ \E m \in NetworkErrors : FetchReject(c, m)
    \/ Read(c)
\* what EndOfStream does to pc, and only EndOfStream: the read of an ended
\* and emptied body resolves with done
StreamEnded(c) ==
    /\ pc[c] = "reading"
    /\ ~Busy
    /\ wire[c] = <<>>
    /\ ~open[c]
    /\ pc' = [pc EXCEPT ![c] = "done"]
\* what ProcessLine does to todo, and only ProcessLine: the for loop goes on
\* to its next line
LineTaken(c) ==
    /\ todo[c] /= <<>>
    /\ todo' = [todo EXCEPT ![c] = Tail(@)]

SpecLive ==
    /\ Init
    /\ [][NextLive]_vars
    /\ \A c \in FirstCall :
        /\ WF_vars(Transport(c))
        /\ WF_pc(StreamEnded(c))
        /\ WF_todo(LineTaken(c))
        /\ WF_vars(ServerClose(c))
(***************************************************************************)
(* The properties of the specification, C1 to C10.                         *)
(***************************************************************************)
NonBlank(line) == \E i \in 1..Len(line) : line[i] /= SP /\ line[i] /= NL
LinesOf(history) == [i \in 1..Len(history) |-> history[i].line]
\* the text the reads have taken so far
Received(c) == SubSeq(sent[c], 1, Len(sent[c]) - Len(Concat(wire[c])))
\* the segments of a text between its newlines, written out position by
\* position: segment k runs from after the (k-1)-th newline to before the k-th
SegmentsOf(text) ==
    LET cuts == {0} \cup {i \in 1..Len(text) : text[i] = NL} \cup {Len(text) + 1}
        starts == cuts \ {Len(text) + 1}
    IN [k \in 1..Cardinality(starts) |->
            LET from == Nth(starts, k)
                to == Nth(cuts, k + 1)
            IN [i \in 1..(to - from - 1) |-> text[from + i]]]
AllButLast(seq) == SubSeq(seq, 1, Len(seq) - 1)

\* C1: whatever the cuts, the lines handled (the complete lines of the
\* read loop, then the final buffer) are the non-blank segments of the text
\* between its newlines, in order, each once; a blank segment is never
\* handled.  While the stream is read the same holds of the text received,
\* its last segment waiting in buffer.
C1_FramingIsCutInvariant ==
    \A c \in Calls :
        /\ pc[c] = "done" =>
                /\ LinesOf(processed[c]) = SelectSeq(SegmentsOf(sent[c]), NonBlank)
                /\ \A i \in 1..Len(processed[c]) :
                        processed[c][i].final => i = Len(processed[c])
        /\ pc[c] = "reading" =>
                /\ LinesOf(processed[c]) \o SelectSeq(todo[c], NonBlank)
                        = SelectSeq(AllButLast(SegmentsOf(Received(c))), NonBlank)
                /\ buffer[c] = SegmentsOf(Received(c))[Len(SegmentsOf(Received(c)))]

\* a read has ended inside a line after a blank line and a handled line, and
\* the rest of the line is on its way
C1_Witness ==
    \E c \in Calls :
        /\ pc[c] = "reading"
        /\ buffer[c] = <<"1">>
        /\ wire[c] = << <<"x">> >>
        /\ sent[c] = <<"x", NL, NL, "1", "x">>
        /\ Len(processed[c]) = 1
        /\ todo[c] = <<>>

\* the state is what the loop makes of line on State
LoopStep(c, line) ==
    /\ todo[c] /= <<>>
    /\ Head(todo[c]) = line
\* the stream ends with line waiting in buffer
FinalStep(c, line) ==
    /\ pc[c] = "reading"
    /\ pc'[c] = "done"
    /\ buffer[c] = line

\* C2: a double-encoded line has the effect of the direct line of the same
\* event, in the loop and as the final buffer.
C2_DoubleEncodedActsAsDirect ==
    [][\A c \in Calls : \A ev \in RecognizedEvents :
        /\ LoopStep(c, DoubleEncodedLine(ev))
                => State' = HandleLine(State, DirectLine(ev))
        /\ FinalStep(c, DoubleEncodedLine(ev))
                => State' = Finally(HandleFinal(State, DirectLine(ev)))]_vars

\* the list a highlights event gives for a content: that of its last entry
\* with this content, the empty list when there is none or it has no list
EntriesFor(content, entries) ==
    {i \in 1..Len(entries) : Prop(entries[i], "content") = content}
LastOf(S) == CHOOSE i \in S : \A j \in S : j <= i
ListedHighlights(content, entries) ==
    IF EntriesFor(content, entries) = {} THEN JArr(<<>>)
    ELSE IF Prop(entries[LastOf(EntriesFor(content, entries))], "highlights").t = "arr"
         THEN Prop(entries[LastOf(EntriesFor(content, entries))], "highlights")
         ELSE JArr(<<>>)
HighlightsEvents == {HighlightsA, HighlightsABA}
DocumentsEvents == {DocsAB, DocsACA}

\* after is before with the highlights of the entries attached by content
Attached(before, after, entries) ==
    /\ Len(after) = Len(before)
    /\ \A i \in 1..Len(before) :
        /\ Prop(after[i], "content") = Prop(before[i], "content")
        /\ Prop(after[i], "highlights")
                = ListedHighlights(Prop(before[i], "content"), entries)

\* C8: a highlights event gives every document of the result the list the
\* event has for its content, the empty list when it has none; the count,
\* order and content of the documents stay.
C8_HighlightsByContent ==
    [][\A c \in Calls : \A ev \in HighlightsEvents :
        LoopStep(c, DirectLine(ev)) /\ currentQuery /= Null
            => /\ currentQuery' /= Null
               /\ currentQuery'.documents.t = "arr"
               /\ Attached(currentQuery.documents.v, currentQuery'.documents.v,
                           Prop(ev, "data").v)]_vars

\* C9: while no loop is running, a set error means loading is false.
C9_ErrorClearsLoading == ~Busy => (error /= Null => ~isLoading)

HandledInLoop(c, events) ==
    processed[c] = [i \in 1..Len(events) |-> [line |-> DirectLine(events[i]), final |-> FALSE]]

\* C3: after documents, highlights, answer(done) on an ok response the
\* result has the documents of the documents event with the highlights of
\* the highlights event, the answer's payload, the K values carried, no
\* streamError, and loading is false.
C3_DocumentsHighlightsAnswer ==
    \A c \in Calls : \A d \in DocumentsEvents : \A h \in HighlightsEvents :
        pc[c] = "done" /\ HandledInLoop(c, <<d, h, AnswerDone>>)
            => /\ ~isLoading
               /\ currentQuery /= Null
               /\ currentQuery.documents.t = "arr"
               /\ Attached(Prop(d, "data").v, currentQuery.documents.v, Prop(h, "data").v)
               /\ currentQuery.answer = Word("done")
               /\ currentQuery.structured_answer = JObj(<<Member("v", JNum(<<"1">>))>>)
               /\ currentQuery.requestedK
                    = IF HasOwn(h.v, <<"requested_k">>) THEN Prop(h, "requested_k")
                      ELSE IF HasOwn(d.v, <<"requested_k">>) THEN Prop(d, "requested_k")
                      ELSE Null
               /\ currentQuery.effectiveK
                    = IF HasOwn(h.v, <<"effective_k">>) THEN Prop(h, "effective_k")
                      ELSE IF HasOwn(d.v, <<"effective_k">>) THEN Prop(d, "effective_k")
                      ELSE Null
               /\ currentQuery.streamError = Null

\* the call was answered with a status that is not ok, and has ended
RefusedByServer(c) ==
    /\ pc[c] = "failed"
    /\ response[c] /= Null
    /\ ~response[c].ok
ServerResponded(r) == JStr(<<"Server responded with ", r.status, ": ", r.statusText>>)

\* C6 as stated: after a status that is not ok no line was handled, the
\* result is unset, the error is the status message and loading is false.
C6_ResultUnsetAfterStatus ==
    \A c \in Calls :
        RefusedByServer(c)
            => /\ processed[c] = <<>>
               /\ currentQuery = Null
               /\ error = ServerResponded(response[c])
               /\ ~isLoading

\* C6: after a status that is not ok no line was handled, the result is
\* the initial result of the query with the status message as streamError,
\* the error is the status message and loading is false.
C6_StatusRecordedInResult ==
    \A c \in Calls :
        RefusedByServer(c)
            => /\ processed[c] = <<>>
               /\ sent[c] = <<>>
               /\ currentQuery =
                    [question |-> JStr(request[c].question), documents |-> JArr(<<>>),
                     answer |-> Null, structured_answer |-> Null,
                     streamError |-> ServerResponded(response[c]),
                     requestedK |-> Null, effectiveK |-> Null]
               /\ error = ServerResponded(response[c])
               /\ ~isLoading

C6_Witness ==
    \E c \in Calls :
        /\ RefusedByServer(c)
        /\ response[c].status = "503"
        /\ error = JStr(<<"Server responded with ", "503", ": ", "Service Unavailable">>)

HasPrefix(val, prefix) == val.t = "str" /\ val.v /= <<>> /\ Head(val.v) = prefix
\* the stream of the call ended with a non-blank buffer
EndedWithBuffer(c) ==
    /\ pc[c] = "done"
    /\ processed[c] /= <<>>
    /\ processed[c][Len(processed[c])].final
\* what the final buffer must have led to, d the completion of its decoding
FinalBufferOutcome(d) ==
    /\ d.ok /\ d.val.t = "obj" /\ Prop(d.val, "error").t = "str"
       /\ Prop(d.val, "error").v /= <<>>
            => /\ currentQuery.streamError = Prop(d.val, "error")
               /\ error = Prop(d.val, "error")
               /\ ~isLoading
    /\ ~d.ok
            => /\ HasPrefix(error, "stream_parse_error(final): ")
               /\ currentQuery.streamError = error

\* C7: a final buffer that decodes to an event with an error field makes
\* streamError and the error that string and loading false; one that fails
\* to decode makes them a message that begins 'stream_parse_error(final): ';
\* while the stream is read no error and no streamError begins so.
C7_FinalBuffer ==
    \A c \in Calls :
        /\ EndedWithBuffer(c) => FinalBufferOutcome(DecodeLine(buffer[c]))
        /\ pc[c] = "reading"
            => /\ ~HasPrefix(error, "stream_parse_error(final): ")
               /\ ~HasPrefix(currentQuery.streamError, "stream_parse_error(final): ")

\* a line failed to decode in the loop, and then the final buffer did
C7_Witness ==
    \E c \in Calls :
        /\ EndedWithBuffer(c)
        /\ processed[c] = <<[line |-> GarbledLine, final |-> FALSE],
                            [line |-> TruncatedLine, final |-> TRUE]>>
        /\ HasPrefix(error, "stream_parse_error(final): ")

\* a step inside the query of call c: it is being read, and no new query starts
WithinQuery(c) ==
    /\ pc[c] = "reading"
    /\ pc'[c] /= "fetching"
    /\ currentQuery /= Null
AllEvents == RecognizedEvents \cup {StatusEvent}
\* the loop handles a line whose event carries wireKey
CarriedInStep(c, wireKey) ==
    \E ev \in AllEvents :
        /\ LoopStep(c, DirectLine(ev))
        /\ HasOwn(ev.v, <<wireKey>>)
        /\ ~Nullish(Prop(ev, wireKey))
KPersists(c, field, wireKey) ==
    WithinQuery(c) /\ ~Nullish(currentQuery[field]) /\ ~CarriedInStep(c, wireKey)
        => currentQuery' /= Null /\ currentQuery'[field] = currentQuery[field]

\* C5: once requestedK or effectiveK is set in a query, every step of the
\* query but the handling of an event that carries the field leaves it as it
\* is.
C5_KPersists ==
    [][\A c \in Calls : /\ KPersists(c, "requestedK", "requested_k")
                        /\ KPersists(c, "effectiveK", "effective_k")]_vars

\* both were set by a documents event; a documents event without them and a
\* line that does not decode followed
C5_Witness ==
    \E c \in Calls :
        /\ LinesOf(processed[c])
                = <<DirectLine(DocsAB), DirectLine(DocsACA), GarbledLine>>
        /\ pc[c] = "reading"
        /\ todo[c] = <<>>
        /\ currentQuery.requestedK = JNum(<<"5">>)
        /\ currentQuery.effectiveK = JNum(<<"3">>)

AnswerEvents == {AnswerDone, AnswerPart}
AnswerInStep(c) == \E ev \in AnswerEvents : LoopStep(c, DirectLine(ev))
AnswerAssigned(c) ==
    \E i \in 1..Len(processed[c]) : \E ev \in AnswerEvents :
        processed[c][i] = [line |-> DirectLine(ev), final |-> FALSE]
AnswerKept ==
    /\ currentQuery' /= Null
    /\ currentQuery'.answer = currentQuery.answer
    /\ currentQuery'.structured_answer = currentQuery.structured_answer

\* C10 as stated: in a query, answer and structuredAnswer change only when
\* the loop handles an answer event, and once an answer event was handled
\* no later step changes them.
C10_AnswerSetOnce ==
    [][\A c \in Calls :
        WithinQuery(c) /\ (~AnswerInStep(c) \/ AnswerAssigned(c)) => AnswerKept]_vars

\* C10: in a query, answer and structuredAnswer change only when the loop
\* handles an answer event, and every such step assigns both from the
\* payload of its event, the first and the later ones alike.
C10_AnswerSetTogether ==
    [][\A c \in Calls :
        WithinQuery(c)
            => /\ ~AnswerInStep(c) => AnswerKept
               /\ \A ev \in AnswerEvents :
                    LoopStep(c, DirectLine(ev))
                        => /\ currentQuery' /= Null
                           /\ currentQuery'.answer = Prop(Prop(ev, "data"), "answer")
                           /\ currentQuery'.structured_answer
                                = Prop(Prop(ev, "data"), "structured_answer")]_vars

\* a partial answer, then the completed one
C10_Witness ==
    \E c \in Calls :
        /\ LinesOf(processed[c]) = <<DirectLine(AnswerPart), DirectLine(AnswerDone)>>
        /\ ~processed[c][2].final
        /\ currentQuery.answer = Word("done")
        /\ currentQuery.structured_answer = JObj(<<Member("v", JNum(<<"1">>))>>)

\* what the loop makes of the lines, one after the other, from st
RECURSIVE AfterLines(_, _)
AfterLines(st, lines) ==
    IF lines = <<>> THEN st ELSE AfterLines(HandleLine(st, Head(lines)), Tail(lines))
\* the lines of the model that JSON.parse rejects
Malformed(line) == line \in {TruncatedLine, GarbledLine}
WellFormed(line) == ~Malformed(line)
\* the lines whose handling ends in the catch of the loop
Caught(line) == Malformed(line) \/ line = NullLine
CaughtAt(lines) == {i \in 1..Len(lines) : Caught(lines[i])}
\* the lines after which the error is that of the line
SetsError(line) == Caught(line) \/ line = DirectLine(ErrorTimeout)
MalformedAt(lines) == {i \in 1..Len(lines) : Malformed(lines[i])}
SetsErrorAt(lines) == {i \in 1..Len(lines) : SetsError(lines[i])}
MergedFields == QueryFields \ {"streamError"}
\* the loop of call c has handled a malformed line, and is not running
MalformedHandled(c) ==
    /\ pc[c] = "reading"
    /\ todo[c] = <<>>
    /\ MalformedAt(LinesOf(processed[c])) /= {}
StartOf(c) ==
    [cq |-> InitialQuery(request[c].question), error |-> Null, isLoading |-> TRUE]
\* the merged fields are those of cq
SameMerged(cq) == \A f \in MergedFields : currentQuery[f] = cq[f]
ParseErrorOf(line) == JStr(<<"stream_parse_error: ">> \o JSONparse(line).msg)
ErrorIsOf(line) ==
    /\ error = ParseErrorOf(line)
    /\ currentQuery.streamError = ParseErrorOf(line)

\* C4 as stated: after lines of which one fails to decode, and it alone
\* ends in the catch, the merged fields are those the lines without it
\* produce, and streamError and the error are the message of that line.
C4_MalformedLineMessageStays ==
    \A c \in Calls :
        MalformedHandled(c) /\ Cardinality(CaughtAt(LinesOf(processed[c]))) = 1
            => /\ SameMerged(AfterLines(StartOf(c),
                                SelectSeq(LinesOf(processed[c]), WellFormed)).cq)
               /\ \A i \in MalformedAt(LinesOf(processed[c])) :
                    ErrorIsOf(LinesOf(processed[c])[i])

\* C4: after lines of which some fail to decode, the merged fields are
\* those the lines without them produce, and streamError and the error are
\* the message of the last of them unless a later line set an error of its
\* own; no call fails with the message of a line.
C4_MalformedLineSkipped ==
    \A c \in Calls :
        /\ pc[c] = "failed" => ~HasPrefix(error, "stream_parse_error: ")
        /\ MalformedHandled(c)
            => /\ SameMerged(AfterLines(StartOf(c),
                                SelectSeq(LinesOf(processed[c]), WellFormed)).cq)
               /\ \A i \in MalformedAt(LinesOf(processed[c])) :
                    i = LastOf(SetsErrorAt(LinesOf(processed[c])))
                        => ErrorIsOf(LinesOf(processed[c])[i])

\* a line that does not decode between a documents and an answer event
C4_Witness ==
    \E c \in Calls :
        /\ MalformedHandled(c)
        /\ LinesOf(processed[c])
                = <<DirectLine(DocsAB), GarbledLine, DirectLine(AnswerDone)>>
        /\ Len(currentQuery.documents.v) = 2
        /\ currentQuery.answer = Word("done")
        /\ HasPrefix(error, "stream_parse_error: ")

(***************************************************************************)
(* The properties C11 to C20.                                              *)
(***************************************************************************)
\* the active result is the one the latest submitQuery of call c created
ActiveResultOf(c) ==
    /\ currentQuery /= Null
    /\ pc[c] \in {"fetching", "reading"}
    /\ currentQuery.question = JStr(QuestionOf(c))

\* C11: while the result of a later query is active, no line of the stream
\* of another query changes it.
C11_NoCrossQueryMerge ==
    [][\A a \in Calls : \A b \in Calls \ {a} :
        ActiveResultOf(b) /\ todo[a] /= <<>> => currentQuery' = currentQuery]_vars

\* C19: a current query that is null stays null in every step but the
\* submitQuery that creates a new result.
C19_ResetStaysNull ==
    [][currentQuery = Null /\ (\A c \in Calls : pc'[c] = "fetching" => pc[c] = "fetching")
            => currentQuery' = Null]_vars

MergingEvents == DocumentsEvents \cup HighlightsEvents \cup AnswerEvents

\* C12: a documents, highlights or answer event left in the final buffer
\* changes the result as the same line does in the loop.
C12_FinalLineMergedAsInLoop ==
    [][\A c \in Calls : \A ev \in MergingEvents :
        FinalStep(c, DirectLine(ev))
            => currentQuery' = HandleLine(State, DirectLine(ev)).cq]_vars

\* the loop has handled an answer event with the completion flag
AnswerCompleted(c) ==
    \E i \in 1..Len(processed[c]) :
        processed[c][i] = [line |-> DirectLine(AnswerDone), final |-> FALSE]
\* the query of call c is in a terminal state
Terminal(c) == AnswerCompleted(c) \/ (error /= Null /\ ~isLoading)

\* C14: once the query is in a terminal state no later step of its stream
\* changes the result.
C14_TerminalStateIsFinal ==
    [][\A c \in Calls : WithinQuery(c) /\ Terminal(c)
            => currentQuery' = currentQuery]_vars

\* an answer event with the completion flag was handled, in the loop or as
\* the final buffer
AnswerDoneSeen(c) ==
    \E i \in 1..Len(processed[c]) : processed[c][i].line = DirectLine(AnswerDone)

\* C15: a query whose loading is false and that has no error has handled an
\* answer event with the completion flag.
C15_CompletedOnlyByAnswer ==
    \A c \in Calls :
        pc[c] \in {"reading", "done"} /\ ~isLoading /\ error = Null
            => AnswerDoneSeen(c)

TypedErrorEvents == {ErrorDocs, ErrorHighlights, ErrorAnswer}

\* C13: an event with an error field and a type makes streamError and the
\* error its error string and loading false, leaves every other field of the
\* result as it is, and the loop goes on with the next line.
C13_ErrorFieldBeforeType ==
    [][\A c \in Calls : \A ev \in TypedErrorEvents :
        LoopStep(c, DirectLine(ev)) /\ currentQuery /= Null
            => /\ error' = Word("boom")
               /\ ~isLoading'
               /\ currentQuery' /= Null
               /\ currentQuery'.streamError = Word("boom")
               /\ \A f \in MergedFields : currentQuery'[f] = currentQuery[f]
               /\ todo'[c] = Tail(todo[c])
               /\ pc'[c] = "reading"]_vars

\* a documents event, then a documents event with an error field, then an
\* answer event: the second changed neither the documents nor requestedK
C13_Witness ==
    \E c \in Calls :
        /\ LinesOf(processed[c])
                = <<DirectLine(DocsAB), DirectLine(ErrorDocs), DirectLine(AnswerK)>>
        /\ todo[c] = <<>>
        /\ Len(currentQuery.documents.v) = 2
        /\ currentQuery.requestedK = JNum(<<"5">>)
        /\ currentQuery.answer = Word("part")
        /\ currentQuery.streamError = Word("boom")
        /\ error = Word("boom")
        /\ ~isLoading

UnknownEvents == {StatusEvent, TypeError}

\* C16: an event without an error field whose type is not documents,
\* highlights or answer changes nothing, in the loop and as the final
\* buffer (where the end of the stream clears loading).
C16_UnknownTypeIgnored ==
    [][\A c \in Calls : \A ev \in UnknownEvents :
        /\ LoopStep(c, DirectLine(ev)) => State' = State
        /\ FinalStep(c, DirectLine(ev)) => State' = Finally(State)]_vars

KEvents == {DocsAB, HighlightsABA, AnswerK}

\* C17: after an event of type documents, highlights or answer that
\* carries requested_k or effective_k the result has the carried value.
C17_KSetByAnyEvent ==
    [][\A c \in Calls : \A ev \in KEvents :
        LoopStep(c, DirectLine(ev)) /\ currentQuery /= Null
            => /\ currentQuery' /= Null
               /\ HasOwn(ev.v, <<"requested_k">>)
                    => currentQuery'.requestedK = Prop(ev, "requested_k")
               /\ HasOwn(ev.v, <<"effective_k">>)
                    => currentQuery'.effectiveK = Prop(ev, "effective_k")]_vars

\* C18: under a transport that settles every fetch and every read and a
\* server that ends every body, every accepted submitQuery call comes to its
\* end, by the end of the stream or by the catch, with the loading flag false
C18_LoadingEventuallyCleared ==
    \A c \in FirstCall :
        (pc[c] = "fetching" /\ isLoading)
            ~> (pc[c] \in {"done", "failed"} /\ ~isLoading)
\* a stream of one malformed line and one error event has been read to its
\* end and the call has returned
C18_Witness ==
    /\ pc[1] = "done"
    /\ ~isLoading
    /\ LinesOf(processed[1]) = <<GarbledLine, DirectLine(ErrorTimeout)>>
    /\ returned[1] /= NotReturned

\* C20: a submitQuery call made while the resources are not loaded sends no
\* request, returns null and sets the error to the fixed message, and it
\* leaves the current query and the loading flag as they were
\* while the resources are not loaded, a step that is not one of the status
\* request is a call of submitQuery
RefusedCall == ~isResourcesLoaded /\ statusPc' = statusPc
C20_RefusedSubmitQuery ==
    [][RefusedCall =>
            /\ \E c \in Calls : returned' = [returned EXCEPT ![c] = Null]
            /\ error' = JStr(<<"Resources not loaded. Please wait for the system to initialize.">>)
            /\ UNCHANGED <<currentQuery, isLoading, isResourcesLoaded>>
            /\ UNCHANGED <<request, response, pc, streamVars>>]_vars
\* refused while the status request of the mount is still pending, so that
\* the loading flag is true and stays true
C20_Witness ==
    /\ ~isResourcesLoaded
    /\ statusPc = "pending"
    /\ isLoading
    /\ currentQuery = Null
    /\ error = JStr(<<"Resources not loaded. Please wait for the system to initialize.">>)
    /\ returned[1] = Null
    /\ request[1] = Null
    /\ pc[1] = "idle"
=============================================================================
